---- MODULE Spec2Model ----
(***************************************************************************)
(* A model of pyrax/cloud_databases.py: the Cloud Databases client, its    *)
(* instance resource, the flavor resolver and the request-body builder.    *)
(* The generic manager, the HTTP transport and the remote service are the  *)
(* collaborators the module calls; they are modelled by what they return.  *)
(***************************************************************************)
EXTENDS Integers, Sequences, FiniteSets, TLC

VARIABLES
    catalog,      \* the remote flavor catalog, in listing order
    dbs,          \* dbs[i]: names of the databases of remote instance i
    users,        \* users[i]: names of the users of remote instance i
    rootEnabled,  \* rootEnabled[i]: whether root login is enabled on i
    volume,       \* volume[i]: the "size" of the volume attribute of Instance i
    pc,           \* pc[c]: where caller c stands inside create_database/create_user
    last          \* the operation that completed last: arguments, calls, outcome

vars == <<catalog, dbs, users, rootEnabled, volume, pc, last>>

----------------------------------------------------------------------------
(* Bounds of the model.                                                    *)

MaxFlavors == 2   \* flavors in the catalog
MaxId == 2        \* flavor ids are 1..MaxId
MaxSize == 3      \* volume sizes are 1..MaxSize

----------------------------------------------------------------------------
(* Python values, tagged with their type: isinstance() reads the tag and   *)
(* == compares tag and content, so 1 and "1" differ.                       *)

None == [type |-> "NoneType"]
PyInt(n) == [type |-> "int", val |-> n]
PyStr(s) == [type |-> "str", val |-> s]
PyBool(b) == [type |-> "bool", val |-> b]
PyList(s) == [type |-> "list", val |-> s]
FlavorObj(f) == [type |-> "CloudDatabaseFlavor", val |-> f]
InstanceObj(i) == [type |-> "CloudDatabaseInstance", val |-> i]
DatabaseObj(n) == [type |-> "CloudDatabaseDatabase", val |-> n]
UserObj(n) == [type |-> "CloudDatabaseUser", val |-> n]
Href(rel, id) == [type |-> "href", val |-> [rel |-> rel, id |-> id]]

(* How a call ends.                                                        *)
Return(v) == [kind |-> "return", value |-> v]
Raise(e, a) == [kind |-> "raise", exc |-> e, arg |-> a]

(* One request handed to the transport.                                    *)
Request(m, u, b) == [method |-> m, uri |-> u, body |-> b]

(* A caller is a program that makes one call: about to call, between the   *)
(* two requests of a create, or returned.                                  *)
Idle == [at |-> "idle"]
Returned == [at |-> "returned"]
NoOp == [op |-> "none"]

----------------------------------------------------------------------------
(* The flavor catalog.                                                     *)

FlavorNames == {"small"}
RamSizes == {1, 2, 3}
RamVals == {PyInt(n) : n \in RamSizes}
(* The service decides what a name is: a numeric name is a value a ram can *)
(* equal.                                                                  *)
NameVals == {PyStr(s) : s \in FlavorNames} \cup RamVals
Flavors == [id : 1..MaxId, name : NameVals, ram : RamVals]

RECURSIVE CatalogsOfLen(_)
CatalogsOfLen(n) ==
    IF n = 0 THEN {<<>>}
    ELSE {Append(c, f) : c \in CatalogsOfLen(n - 1), f \in Flavors}

DistinctIds(c) == \A i, j \in 1..Len(c) : i # j => c[i].id # c[j].id
Catalogs(n) ==
    {c \in UNION {CatalogsOfLen(k) : k \in 0..n} : DistinctIds(c)}

(* The links of a flavor as the service reports them.                      *)
links(f) ==
    << [rel |-> "self", href |-> Href("self", f.id)],
       [rel |-> "bookmark", href |-> Href("bookmark", f.id)] >>

(* Values a caller may hand in as a flavor.                                *)
FlavorInputs(cat) ==
    {PyInt(n) : n \in 1..(MaxId + 1)} \cup RamVals
    \cup {PyStr(s) : s \in FlavorNames \cup {"huge"}}
    \cup {FlavorObj(cat[k]) : k \in 1..Len(cat)}

----------------------------------------------------------------------------
(* CloudDatabaseClient: flavor lookups and the flavor resolver.            *)

manager_get_flavor(cat, flavor_id) ==
    LET hits == SelectSeq(cat, LAMBDA f : f.id = flavor_id.val)
    IN  IF hits = <<>> THEN Raise("NotFound", flavor_id)
        ELSE Return(FlavorObj(hits[1]))

get_flavor(cat, flavor_id) ==
    [out |-> manager_get_flavor(cat, flavor_id),
     calls |-> <<Request("GET", <<"flavors", flavor_id.val>>, None)>>]

list_flavors(cat) ==
    [out |-> cat, calls |-> <<Request("GET", <<"flavors">>, None)>>]

SelfHref(flavor_obj) ==
    SelectSeq(links(flavor_obj.val), LAMBDA link : link.rel = "self")[1].href

(* Lines 269-279: a Flavor object is taken as it is, an integer is looked  *)
(* up by id and a NotFound of that lookup is swallowed.                    *)
Caught(r) ==
    [obj |-> IF r.out.kind = "return" THEN r.out.value ELSE None,
     out |-> r.out, calls |-> r.calls]

FlavorOrId(cat, flavor) ==
    IF flavor.type = "CloudDatabaseFlavor"
    THEN [obj |-> flavor, out |-> Return(flavor), calls |-> <<>>]
    ELSE IF flavor.type = "int" THEN Caught(get_flavor(cat, flavor))
    ELSE [obj |-> None, out |-> Return(None), calls |-> <<>>]

ByName(flavors, flavor) == SelectSeq(flavors, LAMBDA flav : flav.name = flavor)
ByRam(flavors, flavor) == SelectSeq(flavors, LAMBDA flav : flav.ram = flavor)

(* Lines 293-296: the href of the self link of the flavor found.           *)
Resolved(flavor_obj, calls) ==
    [out |-> Return(SelfHref(flavor_obj)), calls |-> calls]

(* A variant of the search whose error is a plain NotFound.                *)
SearchPlainError(flavor, by_name, by_ram, calls) ==
    IF by_name # <<>> THEN Resolved(FlavorObj(by_name[1]), calls)
    ELSE IF by_ram # <<>> THEN Resolved(FlavorObj(by_ram[1]), calls)
    ELSE [out |-> Raise("NotFound", None), calls |-> calls]

(* A variant of the search that tries ram before name.                     *)
SearchRamFirst(flavor, by_name, by_ram, calls) ==
    IF by_ram # <<>> THEN Resolved(FlavorObj(by_ram[1]), calls)
    ELSE IF by_name # <<>> THEN Resolved(FlavorObj(by_name[1]), calls)
    ELSE [out |-> Raise("FlavorNotFound", flavor), calls |-> calls]

(* Lines 283-292: the first flavor of that name, else the first of that    *)
(* ram, else FlavorNotFound.                                               *)
Search(flavor, by_name, by_ram, calls) ==
    IF by_name # <<>> THEN Resolved(FlavorObj(by_name[1]), calls)
    ELSE IF by_ram # <<>> THEN Resolved(FlavorObj(by_ram[1]), calls)
    ELSE [out |-> Raise("FlavorNotFound", flavor), calls |-> calls]

(* A variant that searches name and ram without the lookup by id.          *)
ResolveNoId(flavor, first, listed) ==
    IF flavor.type = "CloudDatabaseFlavor" THEN Resolved(flavor, <<>>)
    ELSE Search(flavor, ByName(listed.out, flavor), ByRam(listed.out, flavor),
                listed.calls)

(* A variant that lets the NotFound of the lookup by id escape.            *)
ResolveUncaught(flavor, first, listed) ==
    IF first.out.kind = "raise" THEN [out |-> first.out, calls |-> first.calls]
    ELSE IF first.obj # None THEN Resolved(first.obj, first.calls)
    ELSE Search(flavor, ByName(listed.out, flavor), ByRam(listed.out, flavor),
                first.calls \o listed.calls)

(* Lines 280-296, with the outcome of lines 269-279 and the catalog        *)
(* listing of line 282, which is fetched only if no flavor is at hand.     *)
Resolve(flavor, first, listed) ==
    IF first.obj # None THEN Resolved(first.obj, first.calls)
    ELSE Search(flavor, ByName(listed.out, flavor), ByRam(listed.out, flavor),
                first.calls \o listed.calls)

_get_flavor_ref(cat, flavor) ==
    Resolve(flavor, FlavorOrId(cat, flavor), list_flavors(cat))

----------------------------------------------------------------------------
(* CloudDatabaseClient._create_body: one builder for three requests.       *)

Kwargs(name, flavor, vol, databases, usrs, character_set, collate, password, database_names) ==
    [name |-> name, flavor |-> flavor, volume |-> vol, databases |-> databases,
     users |-> usrs, character_set |-> character_set, collate |-> collate,
     password |-> password, database_names |-> database_names]

OrDefault(v, d) == IF v = None THEN d ELSE v

DatabaseBody(a) ==
    [databases |-> << [name |-> a.name, character_set |-> a.character_set,
                       collate |-> a.collate] >>]

UserBody(a) ==
    [users |-> << [name |-> a.name, password |-> a.password,
                   databases |-> [k \in 1..Len(a.database_names.val) |->
                                     [name |-> a.database_names.val[k]]]] >>]

InstanceBody(a, flavor_ref) ==
    [instance |-> [name |-> a.name, flavorRef |-> flavor_ref,
                   volume |-> [size |-> OrDefault(a.volume, PyInt(1))],
                   databases |-> OrDefault(a.databases, PyList(<<>>)),
                   users |-> OrDefault(a.users, PyList(<<>>))]]

(* out: the body or the error; calls: the requests made on the way;        *)
(* refs: the inputs the flavor resolver was invoked with.                  *)
Built(out, calls, refs) == [out |-> out, calls |-> calls, refs |-> refs]

(* Lines 327-339, with the outcome r of the resolver of line 326.          *)
InstanceCase(a, flavor, r) ==
    IF r.out.kind = "raise" THEN Built(r.out, r.calls, <<flavor>>)
    ELSE Built(Return(InstanceBody(a, r.out.value)), r.calls, <<flavor>>)

(* Lines 324-326: flavor defaults to 1 and is resolved.                    *)
WithFlavor(cat, a, flavor) ==
    InstanceCase(a, flavor, _get_flavor_ref(cat, flavor))

(* Lines 317-322: iterating database_names fails on None.                  *)
UserCase(a) ==
    IF a.database_names.type = "list"
    THEN Built(Return(UserBody(a)), <<>>, <<>>)
    ELSE Built(Raise("TypeError", a.database_names), <<>>, <<>>)

(* A variant of the builder that tests password before character_set.     *)
create_body_password_first(cat, a) ==
    IF a.password # None THEN UserCase(a)
    ELSE IF a.character_set # None
    THEN Built(Return(DatabaseBody(a)), <<>>, <<>>)
    ELSE WithFlavor(cat, a, OrDefault(a.flavor, PyInt(1)))

_create_body(cat, a) ==
    IF a.character_set # None
    THEN Built(Return(DatabaseBody(a)), <<>>, <<>>)
    ELSE IF a.password # None THEN UserCase(a)
    ELSE WithFlavor(cat, a, OrDefault(a.flavor, PyInt(1)))

----------------------------------------------------------------------------
(* The remote service behind the generic manager and the transport.        *)

Instances == {1, 2}
RawIds == {1, 2, 3}
Callers == {1, 2}
Names == {"a", "b"}
Replies == {"Accepted", "NotFound"}

ActionUri(i) == <<"instances", i, "action">>
RootUri(i) == <<"instances", i, "root">>
SubUri(i, kind) == <<"instances", i, kind>>

Coll(kind, i) == IF kind = "databases" THEN dbs[i] ELSE users[i]
ResourceObj(kind, n) ==
    IF kind = "databases" THEN DatabaseObj(n) ELSE UserObj(n)

(* What a call does: its outcome, its requests, the remote state it leaves *)
(* and, after a create request, the lookup-by-name still to be made.       *)
Same(out, calls) ==
    [out |-> out, calls |-> calls, dbs |-> dbs, users |-> users,
     root |-> rootEnabled, find |-> <<>>]

WithColl(e, kind, i, S) ==
    IF kind = "databases" THEN [e EXCEPT !.dbs[i] = S]
    ELSE [e EXCEPT !.users[i] = S]

manager_list(kind, i) ==
    Same(Return([type |-> "listing",
                 val |-> {ResourceObj(kind, n) : n \in Coll(kind, i)}]),
         <<Request("GET", SubUri(i, kind), None)>>)

(* The service answers a create of a name it already has with 400.         *)
Posted(kind, i, name, calls) ==
    IF name.val \in Coll(kind, i) THEN Same(Raise("BadRequest", name), calls)
    ELSE WithColl(Same(Return(None), calls), kind, i,
                  Coll(kind, i) \cup {name.val})

Post(kind, i, name, body) ==
    IF body.out.kind = "raise" THEN Same(body.out, body.calls)
    ELSE Posted(kind, i, name,
                body.calls \o
                    <<Request("POST", SubUri(i, kind), body.out.value)>>)

(* create with return_none=True: the body comes from _create_body.         *)
manager_create(kind, i, kwargs) ==
    Post(kind, i, kwargs.name, _create_body(catalog, kwargs))

manager_find(kind, i, name) ==
    Same(IF name.val \in Coll(kind, i)
         THEN Return(ResourceObj(kind, name.val))
         ELSE Raise("NotFound", name),
         <<Request("GET", SubUri(i, kind), None)>>)

Deleted(kind, i, name, reply, calls) ==
    IF name.val \in Coll(kind, i)
    THEN WithColl(Same(Return(None), calls), kind, i,
                  Coll(kind, i) \ {name.val})
    ELSE IF reply = "NotFound" THEN Same(Raise("NotFound", name), calls)
    ELSE Same(Return(None), calls)

(* delete(item): for a name the service does not have, its answer (reply)  *)
(* is the service's choice; a 404 reaches the caller as NotFound.          *)
manager_delete(kind, i, name, reply) ==
    Deleted(kind, i, name, reply,
            <<Request("DELETE", SubUri(i, kind) \o <<name.val>>, None)>>)

manager_get_instance(id) ==
    Same(IF id.val \in Instances THEN Return(InstanceObj(id.val))
         ELSE Raise("NotFound", id),
         <<Request("GET", <<"instances", id.val>>, None)>>)

----------------------------------------------------------------------------
(* CloudDatabaseInstance.                                                  *)

list_databases(i) == manager_list("databases", i)

list_users(i) == manager_list("users", i)

(* After a create request that raised nothing, lines 73 and 96 follow.     *)
ThenFind(e, kind, i, name) ==
    IF e.out.kind = "raise" THEN e
    ELSE [e EXCEPT !.find = <<kind, i, name>>]

(* A variant that goes on to the lookup-by-name whatever the create        *)
(* request answered.                                                       *)
FindAnyway(e, kind, i, name) ==
    [e EXCEPT !.out = Return(None), !.find = <<kind, i, name>>]

(* Lines 85-89: database_names as a list of names.                         *)
AsList(database_names) ==
    IF database_names.type # "list" THEN <<database_names>>
    ELSE database_names.val

NamesOf(as_list) ==
    [k \in 1..Len(as_list) |->
        IF as_list[k].type = "str" THEN as_list[k] ELSE PyStr(as_list[k].val)]

(* The create request of create_database; the lookup-by-name follows.      *)
create_database(i, name, character_set, collate) ==
    ThenFind(manager_create("databases", i,
                 Kwargs(name, None, None, None, None,
                        OrDefault(character_set, PyStr("utf8")),
                        OrDefault(collate, PyStr("utf8_general_ci")),
                        None, None)),
             "databases", i, name)

create_user_unchecked(i, name, password, database_names) ==
    FindAnyway(manager_create("users", i,
                   Kwargs(name, None, None, None, None, None, None, password,
                          PyList(NamesOf(AsList(database_names))))),
               "users", i, name)

(* The create request of create_user; the lookup-by-name follows.          *)
create_user(i, name, password, database_names) ==
    ThenFind(manager_create("users", i,
                 Kwargs(name, None, None, None, None, None, None, password,
                        PyList(NamesOf(AsList(database_names))))),
             "users", i, name)

(* A variant of the lookup that asks the other sub-manager.                *)
create_find_other_manager(kind, i, name) ==
    manager_find(IF kind = "databases" THEN "users" ELSE "databases", i, name)

(* Lines 73 and 96: return self._*_manager.find(name=name)                 *)
create_find(kind, i, name) == manager_find(kind, i, name)

delete_database(i, name, reply) == manager_delete("databases", i, name, reply)

delete_user(i, name, reply) == manager_delete("users", i, name, reply)

enable_root_user(i) ==
    [Same(Return(PyStr("generated")),
          <<Request("POST", RootUri(i), None)>>)
        EXCEPT !.root[i] = TRUE]

root_user_status(i) ==
    Same(Return(PyBool(rootEnabled[i])),
         <<Request("GET", RootUri(i), None)>>)

restart(i) ==
    Same(Return(None),
         <<Request("POST", ActionUri(i), [restart |-> <<>>])>>)

Resized(i, r) ==
    IF r.out.kind = "raise" THEN Same(r.out, r.calls)
    ELSE Same(Return(None),
              r.calls \o
                  <<Request("POST", ActionUri(i),
                            [resize |-> [flavorRef |-> r.out.value]])>>)

resize(i, flavor) == Resized(i, _get_flavor_ref(catalog, flavor))

(* A variant of resize_volume that lets the current size through.         *)
resize_volume_not_smaller(i, size) ==
    IF size.val < volume[i]
    THEN Same(Raise("InvalidVolumeResize", PyInt(volume[i])), <<>>)
    ELSE Same(Return(None),
              <<Request("POST", ActionUri(i),
                        [resize |-> [volume |-> [size |-> size]]])>>)

resize_volume(i, size) ==
    IF size.val <= volume[i]
    THEN Same(Raise("InvalidVolumeResize", PyInt(volume[i])), <<>>)
    ELSE Same(Return(None),
              <<Request("POST", ActionUri(i),
                        [resize |-> [volume |-> [size |-> size]]])>>)

InstanceMethod(op, i, args, reply) ==
    CASE op = "list_databases" -> list_databases(i)
      [] op = "list_users" -> list_users(i)
      [] op = "create_database" -> create_database(i, args[1], args[2], args[3])
      [] op = "create_user" -> create_user(i, args[1], args[2], args[3])
      [] op = "delete_database" -> delete_database(i, args[1], reply)
      [] op = "delete_user" -> delete_user(i, args[1], reply)
      [] op = "enable_root_user" -> enable_root_user(i)
      [] op = "root_user_status" -> root_user_status(i)
      [] op = "restart" -> restart(i)
      [] op = "resize" -> resize(i, args[1])
      [] op = "resize_volume" -> resize_volume(i, args[1])

----------------------------------------------------------------------------
(* CloudDatabaseClient: the instance-scoped operations.                    *)

ClientMethod(op, instance, args, reply) ==
    CASE op = "list_databases" -> list_databases(instance.val)
      [] op = "create_database" ->
             create_database(instance.val, args[1], args[2], args[3])
      [] op = "delete_database" -> delete_database(instance.val, args[1], reply)
      [] op = "list_users" -> list_users(instance.val)
      [] op = "create_user" ->
             create_user(instance.val, args[1], args[2], args[3])
      [] op = "delete_user" -> delete_user(instance.val, args[1], reply)
      [] op = "enable_root_user" -> enable_root_user(instance.val)
      [] op = "root_user_status" -> root_user_status(instance.val)
      [] op = "resize" -> resize(instance.val, args[1])

After(prefix, e) == [e EXCEPT !.calls = prefix \o @]

(* Line 32: fnc(self, instance, ...), unless the lookup raised.            *)
Wrapped(op, got, args, reply) ==
    IF got.out.kind = "raise" THEN got
    ELSE After(got.calls, ClientMethod(op, got.out.value, args, reply))

(* Lines 29-31: anything but an Instance is an id to look up.              *)
Assured(instance) ==
    IF instance.type # "CloudDatabaseInstance"
    THEN manager_get_instance(instance)
    ELSE Same(Return(instance), <<>>)

(* A variant of the wrapper that looks the instance up whatever it got.    *)
assure_instance_always_get(op, instance, args, reply) ==
    Wrapped(op, manager_get_instance(PyInt(instance.val)), args, reply)

assure_instance(op, instance, args, reply) ==
    Wrapped(op, Assured(instance), args, reply)

----------------------------------------------------------------------------
(* Operations.                                                             *)

Done(op, args, r) ==
    /\ last' = [op |-> op, args |-> args, out |-> r.out, calls |-> r.calls]
    /\ UNCHANGED <<catalog, dbs, users, rootEnabled, volume, pc>>

GetFlavorRefCall(flavor) ==
    Done("_get_flavor_ref", <<flavor>>, _get_flavor_ref(catalog, flavor))

DoneBody(args, r) ==
    /\ last' = [op |-> "_create_body", args |-> args, out |-> r.out,
                calls |-> r.calls, refs |-> r.refs]
    /\ UNCHANGED <<catalog, dbs, users, rootEnabled, volume, pc>>

CreateBodyCall(a) == DoneBody(<<a>>, _create_body(catalog, a))

(* The arguments each operation is called with.                            *)
ClientOps ==
    {"list_databases", "create_database", "delete_database", "list_users",
     "create_user", "delete_user", "enable_root_user", "root_user_status",
     "resize"}

NameArgs == {PyStr(n) : n \in Names}

ArgsOf(op) ==
    CASE op \in {"list_databases", "list_users", "enable_root_user",
                 "root_user_status", "restart"} -> {<<>>}
      [] op = "create_database" ->
             {<<n, cs, None>> : n \in NameArgs, cs \in {None, PyStr("latin1")}}
      [] op = "create_user" ->
             {<<n, PyStr("secret"), d>> :
                 n \in NameArgs,
                 d \in {PyStr("a"), PyList(<<DatabaseObj("a"), PyStr("b")>>)}}
      [] op \in {"delete_database", "delete_user"} -> {<<n>> : n \in NameArgs}
      [] op = "resize" -> {<<f>> : f \in FlavorInputs(catalog)}
      [] op = "resize_volume" -> {<<PyInt(n)>> : n \in 0..(MaxSize + 1)}

(* Only a delete of a name the service does not have leaves it a choice.   *)
RepliesOf(op) ==
    IF op \in {"delete_database", "delete_user"} THEN Replies
    ELSE {"Accepted"}

Targets(via) ==
    {InstanceObj(i) : i \in Instances}
    \cup IF via = "client" THEN {PyInt(n) : n \in RawIds} ELSE {}

(* A caller between its create request and its lookup-by-name; "deleted"   *)
(* records whether the created name was deleted since the request.         *)
Finding(via, op, target, args, e) ==
    [at |-> "find", via |-> via, op |-> op, target |-> target, args |-> args,
     kind |-> e.find[1], inst |-> e.find[2], name |-> e.find[3],
     calls |-> e.calls, deleted |-> FALSE]

Deletes(p, e) ==
    /\ p.at = "find"
    /\ p.name.val \in Coll(p.kind, p.inst)
    /\ p.name.val \notin (IF p.kind = "databases" THEN e.dbs[p.inst]
                          ELSE e.users[p.inst])

Noted(p, e) == IF Deletes(p, e) THEN [p EXCEPT !.deleted = TRUE] ELSE p

(* The call of caller c had the effect e.                                  *)
Apply(c, via, op, target, args, e) ==
    /\ dbs' = e.dbs
    /\ users' = e.users
    /\ rootEnabled' = e.root
    /\ pc' = [d \in Callers |->
                IF d # c THEN Noted(pc[d], e)
                ELSE IF e.find = <<>> THEN Returned
                ELSE Finding(via, op, target, args, e)]
    /\ last' = [caller |-> c, via |-> via, op |-> op, target |-> target,
                args |-> args, out |-> e.out, calls |-> e.calls,
                stage |-> IF e.find = <<>> THEN "done" ELSE "created"]
    /\ UNCHANGED <<catalog, volume>>

(* Caller c calls an operation, on the Instance or through the Client, and *)
(* it runs up to its return, its error or the end of its create request.   *)
Call(c, via, op, target, args, reply) ==
    /\ pc[c] = Idle
    /\ Apply(c, via, op, target, args,
             IF via = "client" THEN assure_instance(op, target, args, reply)
             ELSE InstanceMethod(op, target.val, args, reply))

Found(c, p, r) ==
    /\ last' = [caller |-> c, via |-> p.via, op |-> p.op, target |-> p.target,
                args |-> p.args, out |-> r.out, calls |-> p.calls \o r.calls,
                stage |-> "found"]
    /\ pc' = [pc EXCEPT ![c] = Returned]
    /\ UNCHANGED <<catalog, dbs, users, rootEnabled, volume>>

(* Caller c makes the lookup-by-name that ends its create operation.       *)
Find(c) ==
    /\ pc[c].at = "find"
    /\ Found(c, pc[c], create_find(pc[c].kind, pc[c].inst, pc[c].name))

InitQuiet ==
    /\ dbs = [i \in Instances |-> {}]
    /\ users = [i \in Instances |-> {}]
    /\ rootEnabled = [i \in Instances |-> FALSE]
    /\ volume = [i \in Instances |-> 1]
    /\ pc = [c \in Callers |-> Idle]
    /\ last = NoOp

(* Arguments of _create_body that ask for an instance.                     *)
InstanceKwargs(cat) ==
    {Kwargs(PyStr("inst"), f, None, None, None, None, None, None, None) :
        f \in {None} \cup FlavorInputs(cat)}

(* Every combination of present and absent optional arguments.             *)
BodyKwargs(cat) ==
    {Kwargs(PyStr("x"), f, v, d, u, cs, co, pw, dn) :
        f \in {None, PyInt(1), PyInt(MaxId + 1)},
        v \in {None, PyInt(2)},
        d \in {None, PyList(<<[name |-> PyStr("db1")]>>)},
        u \in {None, PyList(<<[name |-> PyStr("u1")]>>)},
        cs \in {None, PyStr("utf8")},
        co \in {None, PyStr("utf8_general_ci")},
        pw \in {None, PyStr("secret")},
        dn \in {None, PyList(<<>>), PyList(<<PyStr("db1"), PyStr("db2")>>)}}

InitResolve ==
    /\ catalog \in Catalogs(MaxFlavors)
    /\ InitQuiet

(* The resolver and the builder keep no state: each behaviour applies one   *)
(* of them once to the catalog drawn initially.                            *)
NextResolve ==
    /\ last = NoOp
    /\ \/ \E flavor \in FlavorInputs(catalog) : GetFlavorRefCall(flavor)
       \/ \E i \in Instances, flavor \in FlavorInputs(catalog) :
              Call(1, "instance", "resize", InstanceObj(i), <<flavor>>, "Accepted")
       \/ \E a \in InstanceKwargs(catalog) : CreateBodyCall(a)

SpecResolve == InitResolve /\ [][NextResolve]_vars

InitBody ==
    /\ catalog \in Catalogs(1)
    /\ InitQuiet

NextBody ==
    /\ last = NoOp
    /\ \E a \in BodyKwargs(catalog) : CreateBodyCall(a)

SpecBody == InitBody /\ [][NextBody]_vars

(* One caller at a time against the service.                               *)
ServiceCatalog ==
    << [id |-> 1, name |-> PyStr("small"), ram |-> PyInt(2)],
       [id |-> 2, name |-> PyInt(3), ram |-> PyInt(3)] >>

InitInstance ==
    /\ catalog = ServiceCatalog
    /\ dbs \in [Instances -> SUBSET Names]
    /\ users \in [Instances -> SUBSET Names]
    /\ rootEnabled \in [Instances -> BOOLEAN]
    /\ volume = [i \in Instances |-> 1]
    /\ pc = [c \in Callers |-> Idle]
    /\ last = NoOp

NextInstance ==
    \/ \E op \in ClientOps, t \in Targets("instance") :
           \E args \in ArgsOf(op), r \in RepliesOf(op) :
               Call(1, "instance", op, t, args, r)
    \/ \E op \in ClientOps, t \in Targets("client") :
           \E args \in ArgsOf(op), r \in RepliesOf(op) :
               Call(1, "client", op, t, args, r)
    \/ Find(1)

SpecInstance == InitInstance /\ [][NextInstance]_vars

(* The volume of an Instance and the actions on it.                        *)
InitVolume ==
    /\ catalog = ServiceCatalog
    /\ dbs = [i \in Instances |-> {}]
    /\ users = [i \in Instances |-> {}]
    /\ rootEnabled = [i \in Instances |-> FALSE]
    /\ volume \in [Instances -> 1..MaxSize]
    /\ pc = [c \in Callers |-> Idle]
    /\ last = NoOp

NextVolume ==
    \E op \in {"resize_volume", "restart"}, i \in Instances :
        \E args \in ArgsOf(op) :
            Call(1, "instance", op, InstanceObj(i), args, "Accepted")

SpecVolume == InitVolume /\ [][NextVolume]_vars

(* Two callers against the same service, interleaved request by request.   *)
RaceOps ==
    {"create_database", "delete_database", "create_user", "delete_user"}

NextRace ==
    \/ \E c \in Callers, op \in RaceOps, i \in Instances :
           \E args \in ArgsOf(op), r \in RepliesOf(op) :
               Call(c, "instance", op, InstanceObj(i), args, r)
    \/ \E c \in Callers : Find(c)

InitRace ==
    /\ catalog = ServiceCatalog
    /\ dbs \in [Instances -> SUBSET Names]
    /\ users \in [Instances -> SUBSET Names]
    /\ rootEnabled = [i \in Instances |-> FALSE]
    /\ volume = [i \in Instances |-> 1]
    /\ pc = [c \in Callers |-> Idle]
    /\ last = NoOp

SpecRace == InitRace /\ [][NextRace]_vars

----------------------------------------------------------------------------
(* Properties of the flavor resolver (SpecResolve).                        *)

IdMatch(X) == X.type = "int" /\ \E k \in 1..Len(catalog) : catalog[k].id = X.val
NameMatches(X) == {k \in 1..Len(catalog) : catalog[k].name = X}
RamMatches(X) == {k \in 1..Len(catalog) : catalog[k].ram = X}
NoMatch(X) ==
    /\ X.type # "CloudDatabaseFlavor"
    /\ ~IdMatch(X)
    /\ NameMatches(X) = {}
    /\ RamMatches(X) = {}
Least(S) == CHOOSE k \in S : \A j \in S : k <= j
SelfLinkOf(k) == Href("self", catalog[k].id)
Posts(calls) == {k \in 1..Len(calls) : calls[k].method = "POST"}
Resolving == last.op \in {"_get_flavor_ref", "resize"}
BuildingInstance ==
    /\ last.op = "_create_body"
    /\ last.args[1].character_set = None
    /\ last.args[1].password = None

(* C3: an input that is no Flavor object and matches no id, no name and no *)
(* ram makes the resolver raise FlavorNotFound carrying that input; resize *)
(* then posts nothing and the instance body is not built.                  *)
C3_NoMatchRaisesFlavorNotFound ==
    /\ (Resolving /\ NoMatch(last.args[1])) =>
           /\ last.out = Raise("FlavorNotFound", last.args[1])
           /\ Posts(last.calls) = {}
    /\ (BuildingInstance
        /\ NoMatch(OrDefault(last.args[1].flavor, PyInt(1)))) =>
           last.out = Raise("FlavorNotFound",
                            OrDefault(last.args[1].flavor, PyInt(1)))

C3_Witness ==
    /\ last.op = "resize"
    /\ Len(catalog) = MaxFlavors
    /\ last.args[1].type = "int"
    /\ NoMatch(last.args[1])
    /\ last.out.kind = "raise"

(* C4: without an id match, a flavor whose name equals the input wins over *)
(* another flavor whose ram equals it, whatever their order in the         *)
(* catalog; a string naming exactly one flavor resolves to that flavor.    *)
C4_NameBeforeRam ==
    (last.op = "_get_flavor_ref"
     /\ last.args[1].type # "CloudDatabaseFlavor"
     /\ ~IdMatch(last.args[1])) =>
        /\ (\E j \in NameMatches(last.args[1]) :
            \E k \in RamMatches(last.args[1]) : j # k) =>
               \E j \in NameMatches(last.args[1]) :
                   last.out = Return(SelfLinkOf(j))
        /\ (last.args[1].type = "str"
            /\ Cardinality(NameMatches(last.args[1])) = 1) =>
               \A j \in NameMatches(last.args[1]) :
                   last.out = Return(SelfLinkOf(j))

C4_Witness ==
    /\ last.op = "_get_flavor_ref"
    /\ ~IdMatch(last.args[1])
    /\ Len(catalog) = 2
    /\ catalog[1].ram = last.args[1]
    /\ catalog[1].name # last.args[1]
    /\ catalog[2].name = last.args[1]
    /\ last.out = Return(SelfLinkOf(2))

(* C5: an integer that is the id of a catalog flavor resolves to that      *)
(* flavor's self link by one lookup-by-id, without listing the catalog,    *)
(* also when another flavor has that integer as its ram or its name.       *)
C5_IdFirst ==
    (last.op = "_get_flavor_ref" /\ IdMatch(last.args[1])) =>
        /\ last.out = Return(Href("self", last.args[1].val))
        /\ last.calls =
               <<Request("GET", <<"flavors", last.args[1].val>>, None)>>

C5_Witness ==
    /\ last.op = "_get_flavor_ref"
    /\ IdMatch(last.args[1])
    /\ \E k \in RamMatches(last.args[1]) : catalog[k].id # last.args[1].val
    /\ \E k \in NameMatches(last.args[1]) : catalog[k].id # last.args[1].val
    /\ last.out.kind = "return"

(* C6: an integer that no lookup-by-id finds and that is no flavor's name, *)
(* but is some flavor's ram, resolves to the self link of the first such   *)
(* flavor in listing order; the NotFound of the lookup does not escape.    *)
C6_RamFallback ==
    (last.op = "_get_flavor_ref"
     /\ last.args[1].type = "int"
     /\ ~IdMatch(last.args[1])
     /\ NameMatches(last.args[1]) = {}
     /\ RamMatches(last.args[1]) # {}) =>
        last.out = Return(SelfLinkOf(Least(RamMatches(last.args[1]))))

C6_Witness ==
    /\ last.op = "_get_flavor_ref"
    /\ last.args[1].type = "int"
    /\ ~IdMatch(last.args[1])
    /\ NameMatches(last.args[1]) = {}
    /\ Cardinality(RamMatches(last.args[1])) = 2
    /\ last.out = Return(SelfLinkOf(1))

----------------------------------------------------------------------------
(* Properties of the request-body builder (SpecBody).                      *)

----------------------------------------------------------------------------
(* Properties of the Instance and Client operations (SpecInstance,         *)
(* SpecVolume, SpecRace). In a step, last' names the call that was made    *)
(* and the unprimed variables are the service before it.                   *)

KindOf(op) ==
    IF op \in {"create_database", "delete_database", "list_databases"}
    THEN "databases" ELSE "users"
Gets(calls) == {k \in 1..Len(calls) : calls[k].method = "GET"}
CallMade == last'.stage # "found"

(* C1: Instance.delete_database and Instance.delete_user of a name the     *)
(* service does not have return without an error and leave the collections *)
(* as they were, also when the service answers the request with not-found. *)
C1_DeleteMissingIsSilent ==
    [][(/\ CallMade
        /\ last'.via = "instance"
        /\ last'.op \in {"delete_database", "delete_user"}
        /\ last'.args[1].val \notin Coll(KindOf(last'.op), last'.target.val)) =>
            /\ last'.out.kind = "return"
            /\ dbs' = dbs
            /\ users' = users]_vars

(* C2: resize_volume(S) on an instance of volume size C raises             *)
(* InvalidVolumeResize and sends nothing when S <= C, and otherwise raises *)
(* nothing and posts {"resize": {"volume": {"size": S}}} once to the       *)
(* action URI of the instance.                                             *)
C2_ResizeVolume ==
    last.op = "resize_volume" =>
        IF last.args[1].val <= volume[last.target.val]
        THEN /\ last.out.kind = "raise"
             /\ last.out.exc = "InvalidVolumeResize"
             /\ last.calls = <<>>
        ELSE /\ last.out = Return(None)
             /\ last.calls =
                    << [method |-> "POST",
                        uri |-> <<"instances", last.target.val, "action">>,
                        body |-> [resize |-> [volume |->
                                     [size |-> last.args[1]]]]] >>

C2_Witness ==
    /\ last.op = "resize_volume"
    /\ last.args[1].val = volume[last.target.val]
    /\ volume[last.target.val] = 2
    /\ last.out.kind = "raise"

(* C8: create_database and create_user of a name the instance already has  *)
(* end with the BadRequest of the create request: no lookup-by-name is     *)
(* made, nothing is returned and the collections stay as they were.        *)
C8_DuplicateCreateFails ==
    [][(/\ CallMade
        /\ last'.via = "instance"
        /\ last'.op \in {"create_database", "create_user"}
        /\ last'.args[1].val \in Coll(KindOf(last'.op), last'.target.val)) =>
            /\ last'.out = Raise("BadRequest", last'.args[1])
            /\ Gets(last'.calls) = {}
            /\ pc'[last'.caller] = Returned
            /\ dbs' = dbs
            /\ users' = users]_vars

C8_Witness ==
    /\ last.op = "create_user"
    /\ last.via = "instance"
    /\ last.out.kind = "raise"
    /\ last.out.exc = "BadRequest"
    /\ last.args[1].val \in users[last.target.val]
    /\ pc[last.caller] = Returned

(* The step made is the Instance call of effect e after the requests of    *)
(* prefix.                                                                 *)
C9_Same(prefix, e) ==
    /\ last'.out = e.out
    /\ last'.calls = prefix \o e.calls
    /\ dbs' = e.dbs
    /\ users' = e.users
    /\ rootEnabled' = e.root
    /\ (pc'[last'.caller].at = "find") = (e.find # <<>>)

C9_Lookup == <<Request("GET", <<"instances", last'.target.val>>, None)>>

(* C9: a Client operation given a raw instance id makes one lookup-by-id   *)
(* first and then does what the Instance operation of the same name does   *)
(* on the instance found, with the same arguments and the same result;     *)
(* given an Instance it makes no lookup; a failed lookup ends the call     *)
(* with its error and the Instance operation is not invoked.               *)
C9_ClientDelegates ==
    [][(CallMade /\ last'.via = "client") =>
        IF last'.target.type = "CloudDatabaseInstance"
        THEN \E r \in RepliesOf(last'.op) :
                 C9_Same(<<>>, InstanceMethod(last'.op, last'.target.val,
                                              last'.args, r))
        ELSE IF last'.target.val \in Instances
        THEN \E r \in RepliesOf(last'.op) :
                 C9_Same(C9_Lookup, InstanceMethod(last'.op, last'.target.val,
                                                   last'.args, r))
        ELSE /\ last'.out = Raise("NotFound", last'.target)
             /\ last'.calls = C9_Lookup
             /\ pc'[last'.caller] = Returned
             /\ UNCHANGED <<dbs, users, rootEnabled>>]_vars

C9_Witness ==
    /\ last.op = "delete_user"
    /\ last.via = "client"
    /\ last.target = PyInt(2)
    /\ last.out = Return(None)
    /\ Len(last.calls) = 2
    /\ last.calls[1].method = "GET"
    /\ last.calls[2].method = "DELETE"

(* C10: between the create request and the lookup-by-name of               *)
(* create_database and create_user another caller may act. Unless the      *)
(* created name was deleted in between, the lookup returns the resource of *)
(* the requested name; if it was deleted, the operation can end in the     *)
(* NotFound of the lookup (C10_Witness).                                   *)
C10_FindAfterCreate ==
    [][\A c \in Callers :
        (pc[c].at = "find" /\ pc'[c] = Returned /\ ~pc[c].deleted) =>
            /\ last'.caller = c
            /\ last'.out = Return(ResourceObj(pc[c].kind, pc[c].name.val))
            /\ last'.out.value.val = last'.args[1].val]_vars

C10_Witness ==
    /\ last.op = "create_database"
    /\ last.stage = "found"
    /\ last.out = Raise("NotFound", last.args[1])
    /\ Len(last.calls) = 2
    /\ last.calls[1].method = "POST"
    /\ \E d \in Callers : d # last.caller /\ pc[d] = Returned

====
